---- MODULE Spec2Model ----
(***************************************************************************)
(* EnvironmentsService (src/app/services/environments.service.ts): the     *)
(* in-memory collection of environments and routes, its Mutation API, the  *)
(* two debounced consumers of environmentUpdateEvents, and the import of   *)
(* an exported document.                                                   *)
(*                                                                         *)
(* Conventions.  Indices are the code's 0-based array indices; At(s, i) is *)
(* s[i].  An environment object carries `oid`, its JavaScript object       *)
(* identity (an event holds the environment by reference), and the         *)
(* identity of its `routes` array in `routesRef`; a route carries the      *)
(* identity of its `customHeaders` array in `headersRef`.  Two fields      *)
(* with the same identity are the same array: what an operation does to    *)
(* the array through one of them shows through the other.  A UUID is a     *)
(* number: the k-th call of uuid() of this process returns k, the empty    *)
(* string of the schemas is EmptyUuid, and UUIDs generated by another      *)
(* instance are numbers from ForeignUuid on.  A name is the sequence of    *)
(* the string pieces concatenated to build it.  Of the fields of an        *)
(* environment and of a route the model keeps those an operation of the    *)
(* service reads or writes (plus `cors`, which the Migration Pipeline      *)
(* fills in); the others are copied along unchanged by every operation.    *)
(***************************************************************************)
EXTENDS Integers, Sequences, FiniteSets, TLC

VARIABLES
    environments,   \* this.environments
    routesTotal,    \* this.routesTotal
    uuidClock,      \* number of uuid() calls made so far
    oidClock,       \* number of objects (environments, arrays) allocated so far
    recomputeTimer, \* debounceTime(100) of environmentUpdateEvents
    persistTimer,   \* debounceTime(1000) of environmentUpdateEvents
    writes,         \* storage.set calls not acknowledged yet
    stored,         \* value of the store under storageKey
    invoked,        \* <<callback, consumer>>: callbacks invoked so far
    alerts,         \* alertService.showAlert calls, in order
    uncaught,       \* exceptions that left a callback uncaught
    servers,        \* oids of the environments whose server instance is up
    calls           \* number of calls made by the UI so far

vars == <<environments, routesTotal, uuidClock, oidClock, recomputeTimer,
          persistTimer, writes, stored, invoked, alerts, uncaught, servers,
          calls>>

----------------------------------------------------------------------------
(* Bounds of the model *)

MaxCalls == 2

MaxEnvironments == 3

MaxRoutes == 3

----------------------------------------------------------------------------
(* Program constants *)

EmptyUuid == 0

ForeignUuid == 900

NullEnvironment == 0

NullCallback == 0

RecomputeDebounce == 100

PersistDebounce == 1000

DefaultPort == 3000

\* identity of the array literal of a schema: whatever is built from the
\* schema by Object.assign holds that same array until the field is given
\* another
SchemaArray == 0

\* Object.keys(environments).length === 0: nothing stored under storageKey
EmptyStore == <<>>

----------------------------------------------------------------------------
(* Arrays *)

At(s, i) == s[i + 1]

Indices(s) == 0 .. (Len(s) - 1)

\* Array.prototype.splice(i, 1)
Splice(s, i) == [k \in 1 .. (Len(s) - 1) |-> IF k <= i THEN s[k] ELSE s[k + 1]]

ReplaceAt(s, i, x) == [s EXCEPT ![i + 1] = x]

\* the array `ref` after an operation changed it, or the route objects it
\* holds, in place: every environment whose `routes` is that array has the
\* new content
setRoutes(envs, ref, routes) ==
    [k \in 1 .. Len(envs) |->
        IF envs[k].routesRef = ref THEN [envs[k] EXCEPT !.routes = routes] ELSE envs[k]]

----------------------------------------------------------------------------
(* Schemas *)

customHeadersSchema == [uuid |-> EmptyUuid, key |-> "Content-Type", value |-> "text/plain"]

routeSchema ==
    [uuid |-> EmptyUuid, method |-> "get", endpoint |-> "",
     headersRef |-> SchemaArray, customHeaders |-> <<>>, duplicates |-> <<>>]

environmentSchema ==
    [uuid |-> EmptyUuid, running |-> FALSE, instance |-> "null", name |-> <<"">>,
     port |-> DefaultPort, routesRef |-> SchemaArray, routes |-> <<>>,
     startedAt |-> "null",
     duplicates |-> <<>>, needRestart |-> FALSE, cors |-> TRUE]

\* Object.assign({}, target, changes) on records
Assign(target, changes) ==
    [f \in DOMAIN target \cup DOMAIN changes |->
        IF f \in DOMAIN changes THEN changes[f] ELSE target[f]]

\* uuid(): the k-th value generated after `clock` calls
uuid(clock, k) == clock + k

----------------------------------------------------------------------------
(* Duplicate Detector *)

\* String.prototype.toLowerCase on the endpoints and methods of the model
LowerCase(string) ==
    CASE string = "Answer" -> "answer"
      [] string = "Users" -> "users"
      [] OTHER -> string

\* duplicatedRoutesIndexes comparing the endpoints without regard to case
RECURSIVE duplicatedRoutesIndexesIgnoringCase(_, _, _)
duplicatedRoutesIndexesIgnoringCase(routes, firstRouteIndex, otherRouteIndex) ==
    IF otherRouteIndex >= Len(routes) THEN <<>>
    ELSE IF otherRouteIndex = firstRouteIndex
        THEN duplicatedRoutesIndexesIgnoringCase(routes, firstRouteIndex, otherRouteIndex + 1)
    ELSE IF /\ LowerCase(At(routes, otherRouteIndex).endpoint)
                    = LowerCase(At(routes, firstRouteIndex).endpoint)
            /\ At(routes, otherRouteIndex).method = At(routes, firstRouteIndex).method
        THEN <<otherRouteIndex>>
                \o duplicatedRoutesIndexesIgnoringCase(routes, firstRouteIndex,
                                                       otherRouteIndex + 1)
    ELSE duplicatedRoutesIndexesIgnoringCase(routes, firstRouteIndex, otherRouteIndex + 1)

\* the filter callback of checkRoutesDuplicates: the indices pushed to
\* duplicatedRoutesIndexes, visiting otherRouteIndex in increasing order
RECURSIVE duplicatedRoutesIndexes(_, _, _)
duplicatedRoutesIndexes(routes, firstRouteIndex, otherRouteIndex) ==
    IF otherRouteIndex >= Len(routes) THEN <<>>
    ELSE IF otherRouteIndex = firstRouteIndex
        THEN duplicatedRoutesIndexes(routes, firstRouteIndex, otherRouteIndex + 1)
    ELSE IF /\ At(routes, otherRouteIndex).endpoint = At(routes, firstRouteIndex).endpoint
            /\ At(routes, otherRouteIndex).method = At(routes, firstRouteIndex).method
        THEN <<otherRouteIndex>>
                \o duplicatedRoutesIndexes(routes, firstRouteIndex, otherRouteIndex + 1)
    ELSE duplicatedRoutesIndexes(routes, firstRouteIndex, otherRouteIndex + 1)

\* checkRoutesDuplicates(environment): the environment's routes afterwards
checkRoutesDuplicates(routes) ==
    [k \in 1 .. Len(routes) |->
        [routes[k] EXCEPT !.duplicates = duplicatedRoutesIndexes(routes, k - 1, 0)]]

\* duplicatedEnvironmentsIndexes comparing the names instead of the ports
RECURSIVE duplicatedEnvironmentsIndexesByName(_, _, _)
duplicatedEnvironmentsIndexesByName(envs, environmentIndex, otherEnvironmentIndex) ==
    IF otherEnvironmentIndex >= Len(envs) THEN <<>>
    ELSE IF otherEnvironmentIndex = environmentIndex
        THEN duplicatedEnvironmentsIndexesByName(envs, environmentIndex,
                                                 otherEnvironmentIndex + 1)
    ELSE IF At(envs, otherEnvironmentIndex).name = At(envs, environmentIndex).name
        THEN <<otherEnvironmentIndex>>
                \o duplicatedEnvironmentsIndexesByName(envs, environmentIndex,
                                                       otherEnvironmentIndex + 1)
    ELSE duplicatedEnvironmentsIndexesByName(envs, environmentIndex, otherEnvironmentIndex + 1)

\* the filter callback of checkEnvironmentsDuplicates
RECURSIVE duplicatedEnvironmentsIndexes(_, _, _)
duplicatedEnvironmentsIndexes(envs, environmentIndex, otherEnvironmentIndex) ==
    IF otherEnvironmentIndex >= Len(envs) THEN <<>>
    ELSE IF otherEnvironmentIndex = environmentIndex
        THEN duplicatedEnvironmentsIndexes(envs, environmentIndex, otherEnvironmentIndex + 1)
    ELSE IF At(envs, otherEnvironmentIndex).port = At(envs, environmentIndex).port
        THEN <<otherEnvironmentIndex>>
                \o duplicatedEnvironmentsIndexes(envs, environmentIndex, otherEnvironmentIndex + 1)
    ELSE duplicatedEnvironmentsIndexes(envs, environmentIndex, otherEnvironmentIndex + 1)

\* checkEnvironmentsDuplicates(): this.environments afterwards
checkEnvironmentsDuplicates(envs) ==
    [k \in 1 .. Len(envs) |->
        [envs[k] EXCEPT !.duplicates = duplicatedEnvironmentsIndexes(envs, k - 1, 0)]]

\* index in the collection of the environment object `oid`, -1 when the
\* object is no longer part of the collection
IndexOfObject(envs, oid) ==
    IF \E i \in Indices(envs) : At(envs, i).oid = oid
    THEN CHOOSE i \in Indices(envs) : At(envs, i).oid = oid
    ELSE -1

\* checkRoutesDuplicates(environment) seen from the collection: the object
\* is updated in place; an object removed from the collection is not seen
checkRoutesDuplicatesOf(envs, oid) ==
    LET i == IndexOfObject(envs, oid) IN
    IF i < 0 THEN envs
    ELSE setRoutes(envs, At(envs, i).routesRef, checkRoutesDuplicates(At(envs, i).routes))

----------------------------------------------------------------------------
(* Persistence sanitization *)

\* routes as plain data: what a deep copy handed over for serialization
\* holds, arrays of its own that nothing else refers to
plainRoutes(routes) ==
    [r \in 1 .. Len(routes) |->
        [f \in DOMAIN routes[r] \ {"headersRef"} |-> routes[r][f]]]

\* an environment as plain data
plainEnvironment(environment) ==
    [f \in DOMAIN environment \ {"oid", "routesRef"} |->
        IF f = "routes" THEN plainRoutes(environment.routes) ELSE environment[f]]

\* cleanEnvironment without the four deletes
cloneDeepOnly(environment) == plainEnvironment(environment)

\* cloneDeep(environment) followed by the four deletes; the copy is a new
\* object, with no identity in common with the live one
cleanEnvironment(environment) ==
    [f \in DOMAIN plainEnvironment(environment)
            \ {"instance", "running", "startedAt", "needRestart"}
        |-> plainEnvironment(environment)[f]]

\* cleanBeforeSave cleaning a copy of the first environment only
cleanBeforeSaveFirstOnly(envs) ==
    [k \in 1 .. Len(envs) |->
        IF k = 1 THEN cleanEnvironment(envs[k])
        ELSE plainEnvironment(envs[k])]

cleanBeforeSave(envs) == [k \in 1 .. Len(envs) |-> cleanEnvironment(envs[k])]

----------------------------------------------------------------------------
(* Import: documents, checksum, migrations, UUID renewal *)

\* DataService's checksum of a data payload (a digest of its serialization)
RECURSIVE checksum(_)
checksum(data) ==
    IF data = <<>> THEN 7
    ELSE (Head(data).port + 31 * Len(Head(data).routes) + 3 * checksum(Tail(data))) % 65521

\* DataService.verifyImportChecksum(importData)
verifyImportChecksum(importData) == importData.checksum = checksum(importData.data)

\* JSON.parse(fileContent): the parsed document, or a SyntaxError thrown
JSONParse(fileContent) ==
    [throws |-> ~fileContent.wellFormed, value |-> fileContent.document]

\* One step of Migrations: adds `cors` to an environment that lacks it
migrateCors(environment) ==
    IF "cors" \in DOMAIN environment THEN environment
    ELSE Assign(environment, [cors |-> TRUE])

\* migrateData(environments): every migration on every environment
migrateData(envs) == [k \in 1 .. Len(envs) |-> migrateCors(envs[k])]

\* customHeader.uuid = uuid() for each header, in order
renewHeaders(customHeaders, clock) ==
    [k \in 1 .. Len(customHeaders) |->
        [customHeaders[k] EXCEPT !.uuid = uuid(clock, k)]]

\* renewRoute leaving the route's own uuid as it is
renewRouteHeadersOnly(route, clock) ==
    [route EXCEPT !.customHeaders = renewHeaders(route.customHeaders, clock + 1)]

\* route.uuid = uuid(), then its headers
renewRoute(route, clock) ==
    [route EXCEPT !.uuid = uuid(clock, 1),
                  !.customHeaders = renewHeaders(route.customHeaders, clock + 1)]

RECURSIVE renewRoutes(_, _)
renewRoutes(routes, clock) ==
    IF routes = <<>> THEN <<>>
    ELSE <<renewRoute(Head(routes), clock)>>
            \o renewRoutes(Tail(routes), clock + 1 + Len(Head(routes).customHeaders))

\* number of uuid() calls renewRoutes makes
RECURSIVE uuidCallsOfRoutes(_)
uuidCallsOfRoutes(routes) ==
    IF routes = <<>> THEN 0
    ELSE 1 + Len(Head(routes).customHeaders) + uuidCallsOfRoutes(Tail(routes))

\* environment.uuid = uuid(), then its routes
renewEnvironment(environment, clock) ==
    [environment EXCEPT !.uuid = uuid(clock, 1),
                        !.routes = renewRoutes(environment.routes, clock + 1)]

\* renewUUIDs(environments)
RECURSIVE renewUUIDs(_, _)
renewUUIDs(envs, clock) ==
    IF envs = <<>> THEN <<>>
    ELSE <<renewEnvironment(Head(envs), clock)>>
            \o renewUUIDs(Tail(envs), clock + 1 + uuidCallsOfRoutes(Head(envs).routes))

\* number of uuid() calls renewUUIDs makes
RECURSIVE uuidCallsOfRenew(_)
uuidCallsOfRenew(envs) ==
    IF envs = <<>> THEN 0
    ELSE 1 + uuidCallsOfRoutes(Head(envs).routes) + uuidCallsOfRenew(Tail(envs))

\* an environment JSON.parse built: a new object, with a new `routes` array
\* and a new `customHeaders` array in each route
adoptEnvironment(environment, clock) ==
    Assign(environment,
        [oid |-> clock + 1, routesRef |-> clock + 2,
         routes |-> [r \in 1 .. Len(environment.routes) |->
                        Assign(environment.routes[r], [headersRef |-> clock + 2 + r])]])

\* the objects JSON.parse built, as pushed to this.environments
RECURSIVE adoptObjects(_, _)
adoptObjects(envs, clock) ==
    IF envs = <<>> THEN <<>>
    ELSE <<adoptEnvironment(Head(envs), clock)>>
            \o adoptObjects(Tail(envs), clock + 2 + Len(Head(envs).routes))

\* number of objects adoptObjects counts
RECURSIVE objectsOfData(_)
objectsOfData(envs) ==
    IF envs = <<>> THEN 0 ELSE 2 + Len(Head(envs).routes) + objectsOfData(Tail(envs))

----------------------------------------------------------------------------
(* First run *)

\* buildDefaultEnvironment(), as the first object allocated and with the
\* first five values of uuid(); its routes are pushed to the array it has
\* from the schema, and each has a `customHeaders` array of its own
buildDefaultEnvironment ==
    Assign(environmentSchema,
        [oid |-> 1, uuid |-> uuid(0, 1), name |-> <<"Example">>,
         routes |-> <<
            Assign(routeSchema,
                [uuid |-> uuid(0, 2), endpoint |-> "answer", headersRef |-> 2,
                 customHeaders |-> <<[uuid |-> uuid(0, 3), key |-> "Content-Type",
                                      value |-> "text/plain"]>>]),
            Assign(routeSchema,
                [uuid |-> uuid(0, 4), method |-> "post", endpoint |-> "dolphins",
                 headersRef |-> 3,
                 customHeaders |-> <<[uuid |-> uuid(0, 5), key |-> "Content-Type",
                                      value |-> "application/json"]>>]) >>])

----------------------------------------------------------------------------
(* Files the user may choose in importEnvironmentsFile *)

\* the collection as serialized in an exported document: plain data
exported(envs) == [k \in 1 .. Len(envs) |-> plainEnvironment(envs[k])]

\* written by a previous version of another instance: no `cors` yet; the
\* three routes of its first environment answer the same method and endpoint
foreignData ==
    << [uuid |-> ForeignUuid + 1, running |-> FALSE, instance |-> "null",
        name |-> <<"Users">>, port |-> 3000, startedAt |-> "null",
        duplicates |-> <<>>, needRestart |-> FALSE,
        routes |-> <<
            [uuid |-> ForeignUuid + 2, method |-> "get", endpoint |-> "users",
             customHeaders |-> <<[uuid |-> ForeignUuid + 3, key |-> "Content-Type",
                                  value |-> "text/plain"]>>,
             duplicates |-> <<1, 2>>],
            [uuid |-> ForeignUuid + 4, method |-> "get", endpoint |-> "users",
             customHeaders |-> <<>>, duplicates |-> <<0, 2>>],
            [uuid |-> ForeignUuid + 8, method |-> "get", endpoint |-> "users",
             customHeaders |-> <<>>, duplicates |-> <<0, 1>>] >>],
       [uuid |-> ForeignUuid + 5, running |-> FALSE, instance |-> "null",
        name |-> <<"Orders">>, port |-> 3001, startedAt |-> "null",
        duplicates |-> <<>>, needRestart |-> FALSE,
        routes |-> <<
            [uuid |-> ForeignUuid + 6, method |-> "post", endpoint |-> "orders",
             customHeaders |-> <<[uuid |-> ForeignUuid + 7, key |-> "Content-Type",
                                  value |-> "application/json"]>>,
             duplicates |-> <<>>] >>] >>

\* exported by this instance right after its first run
ownData == exported(<<buildDefaultEnvironment>>)

\* ownData with one route deleted after the export, the checksum left as it was
tamperedData == <<[ownData[1] EXCEPT !.routes = <<ownData[1].routes[1]>>]>>

\* what JSON.parse gives no value for
NoDocument == [data |-> <<>>, checksum |-> 0]

ReadableFile(document) ==
    [readable |-> TRUE, content |-> [wellFormed |-> TRUE, document |-> document]]

Files ==
    { [readable |-> FALSE, content |-> [wellFormed |-> FALSE, document |-> NoDocument]],
      [readable |-> TRUE, content |-> [wellFormed |-> FALSE, document |-> NoDocument]],
      ReadableFile([data |-> ownData, checksum |-> checksum(ownData)]),
      ReadableFile([data |-> tamperedData, checksum |-> checksum(ownData)]),
      ReadableFile([data |-> foreignData, checksum |-> checksum(foreignData)]) }

----------------------------------------------------------------------------
(* The event stream and its two debounced consumers *)

Idle == [armed |-> FALSE, remaining |-> 0,
         params |-> [environment |-> NullEnvironment, callback |-> NullCallback]]

Armed(dueTime, params) == [armed |-> TRUE, remaining |-> dueTime, params |-> params]

\* next(params) with operators that restart their timer but keep the value
\* they have pending
nextKeepingPending(params) ==
    /\ recomputeTimer' =
        Armed(RecomputeDebounce,
              IF recomputeTimer.armed THEN recomputeTimer.params ELSE params)
    /\ persistTimer' =
        Armed(PersistDebounce, IF persistTimer.armed THEN persistTimer.params ELSE params)

\* environmentUpdateEvents.next(params): both debounceTime operators drop
\* their pending value and restart their timer with the new one
next(params) ==
    /\ recomputeTimer' = Armed(RecomputeDebounce, params)
    /\ persistTimer' = Armed(PersistDebounce, params)

\* time passing until `timer` is due: the other timer has run as long
Elapse(other, timer) ==
    IF other.armed THEN [other EXCEPT !.remaining = other.remaining - timer.remaining]
    ELSE other

\* any timer that runs may fire, whatever time it has left
DueInAnyOrder(timer, other) == timer.armed

\* `timer` is the next one due
NextDue(timer, other) ==
    /\ timer.armed
    /\ other.armed => timer.remaining <= other.remaining

Init ==
    /\ environments = <<buildDefaultEnvironment>>
    /\ routesTotal = 2
    /\ uuidClock = 5
    /\ oidClock = 3
    /\ recomputeTimer = Idle
    /\ persistTimer = Idle
    /\ writes = <<>>
    /\ stored = EmptyStore
    /\ invoked = {}
    /\ alerts = <<>>
    /\ uncaught = 0
    /\ servers = {}
    /\ calls = 0

\* the subscriber of environmentUpdateEvents.debounceTime(100)
RecomputeSubscriber ==
    /\ NextDue(recomputeTimer, persistTimer)
    /\ LET params == recomputeTimer.params IN
        /\ environments' =
            IF params.environment # NullEnvironment
            THEN checkEnvironmentsDuplicates(
                    checkRoutesDuplicatesOf(environments, params.environment))
            ELSE environments
        /\ invoked' =
            IF params.callback # NullCallback
            THEN invoked \cup {<<params.callback, "recompute">>}
            ELSE invoked
    /\ recomputeTimer' = Idle
    /\ persistTimer' = Elapse(persistTimer, recomputeTimer)
    /\ UNCHANGED <<routesTotal, uuidClock, oidClock, writes, stored, alerts,
                   uncaught, servers, calls>>

\* the subscriber of environmentUpdateEvents.debounceTime(1000): storage.set
\* is started with the cleaned copy; its callback runs in StorageSetDone
PersistSubscriber ==
    /\ NextDue(persistTimer, recomputeTimer)
    /\ writes' = Append(writes, [value |-> cleanBeforeSave(environments),
                                 callback |-> persistTimer.params.callback])
    /\ persistTimer' = Idle
    /\ recomputeTimer' = Elapse(recomputeTimer, persistTimer)
    /\ UNCHANGED <<environments, routesTotal, uuidClock, oidClock, stored,
                   invoked, alerts, uncaught, servers, calls>>

\* the store acknowledges the k-th pending storage.set: the value is stored
\* and the callback given to storage.set runs
StorageSetDone(k) ==
    /\ k \in 1 .. Len(writes)
    /\ stored' = writes[k].value
    /\ invoked' =
        IF writes[k].callback # NullCallback
        THEN invoked \cup {<<writes[k].callback, "persist">>}
        ELSE invoked
    /\ writes' = Splice(writes, k - 1)
    /\ UNCHANGED <<environments, routesTotal, uuidClock, oidClock,
                   recomputeTimer, persistTimer, alerts, uncaught, servers, calls>>

----------------------------------------------------------------------------
(* Mutation API *)

\* Object.assign({}, this.routeSchema, { customHeaders: [Object.assign({},
\* this.customHeadersSchema, { uuid: uuid() })] })
\* the array literal is the object allocated after `objects` others
newRoute(clock, objects) ==
    Assign(routeSchema,
        [headersRef |-> objects + 1,
         customHeaders |-> <<Assign(customHeadersSchema, [uuid |-> uuid(clock, 1)])>>])

\* the callback the caller passes: a function of its own for each call
Callback == calls + 1

addEnvironment ==
    /\ calls < MaxCalls
    /\ Len(environments) < MaxEnvironments
    /\ LET newEnvironment ==
            Assign(environmentSchema,
                [oid |-> oidClock + 1, uuid |-> uuid(uuidClock, 2),
                 name |-> <<"New environment">>, port |-> 3000,
                 routesRef |-> oidClock + 2,
                 routes |-> <<newRoute(uuidClock, oidClock + 2)>>])
       IN
        /\ routesTotal' = routesTotal + 1
        /\ environments' = Append(environments, newEnvironment)
        /\ next([environment |-> newEnvironment.oid, callback |-> Callback])
    /\ uuidClock' = uuidClock + 2
    /\ oidClock' = oidClock + 3
    /\ calls' = calls + 1
    /\ UNCHANGED <<writes, stored, invoked, alerts, uncaught, servers>>

\* addRoute(environment, callback), environment = this.environments[e]
addRoute(e) ==
    /\ calls < MaxCalls
    /\ e \in Indices(environments)
    /\ Len(At(environments, e).routes) < MaxRoutes
    /\ LET environment == At(environments, e) IN
        /\ environments' =
            setRoutes(environments, environment.routesRef,
                Append(environment.routes, newRoute(uuidClock, oidClock)))
        /\ routesTotal' = routesTotal + 1
        /\ next([environment |-> environment.oid, callback |-> Callback])
    /\ uuidClock' = uuidClock + 1
    /\ oidClock' = oidClock + 1
    /\ calls' = calls + 1
    /\ UNCHANGED <<writes, stored, invoked, alerts, uncaught, servers>>

\* removeRoute without its call of checkRoutesDuplicates
removeRouteNoRecompute(e, routeIndex) ==
    /\ calls < MaxCalls
    /\ e \in Indices(environments)
    /\ routeIndex \in Indices(At(environments, e).routes)
    /\ LET environment == At(environments, e) IN
        /\ environments' =
            setRoutes(environments, environment.routesRef,
                Splice(environment.routes, routeIndex))
        /\ routesTotal' = routesTotal - 1
        /\ next([environment |-> environment.oid, callback |-> Callback])
    /\ calls' = calls + 1
    /\ UNCHANGED <<uuidClock, oidClock, writes, stored, invoked, alerts,
                   uncaught, servers>>

\* removeRoute(environment, routeIndex, callback)
removeRoute(e, routeIndex) ==
    /\ calls < MaxCalls
    /\ e \in Indices(environments)
    /\ routeIndex \in Indices(At(environments, e).routes)
    /\ LET environment == At(environments, e) IN
        /\ environments' =
            setRoutes(environments, environment.routesRef,
                checkRoutesDuplicates(Splice(environment.routes, routeIndex)))
        /\ routesTotal' = routesTotal - 1
        /\ next([environment |-> environment.oid, callback |-> Callback])
    /\ calls' = calls + 1
    /\ UNCHANGED <<uuidClock, oidClock, writes, stored, invoked, alerts,
                   uncaught, servers>>

\* ServerService.stop(environment): the kill of the server instance is
\* requested; it takes effect in serverKilled
stop(environment) ==
    {IF s.oid = environment.oid THEN [s EXCEPT !.stopRequested = TRUE] ELSE s : s \in servers}

removeEnvironment(environmentIndex) ==
    /\ calls < MaxCalls
    /\ environmentIndex \in Indices(environments)
    /\ servers' =
        IF At(environments, environmentIndex).running
        THEN stop(At(environments, environmentIndex))
        ELSE servers
    /\ environments' = checkEnvironmentsDuplicates(Splice(environments, environmentIndex))
    /\ next([environment |-> NullEnvironment, callback |-> NullCallback])
    /\ calls' = calls + 1
    /\ UNCHANGED <<routesTotal, uuidClock, oidClock, writes, stored, invoked,
                   alerts, uncaught>>

\* cloneDeep(route): an equal route that shares no array or object with
\* it; its `customHeaders` array is the object allocated after `objects`
\* others
cloneDeepRoute(route, objects) == [route EXCEPT !.headersRef = objects + 1]

\* the routes of the copy made without cloneDeep: the array of the original
sameRoutes(environment, objects) ==
    [routesRef |-> environment.routesRef, routes |-> environment.routes]

\* cloneDeep(environment.routes): a new array of new routes, each with a new
\* `customHeaders` array
cloneDeepRoutes(environment, objects) ==
    [routesRef |-> objects + 1,
     routes |-> [r \in 1 .. Len(environment.routes) |->
                    cloneDeepRoute(environment.routes[r], objects + r)]]

\* the copy made with only uuid, name, duplicates and routes given anew
copyKeepingRuntime(environment, clock, objects) ==
    Assign(environment,
        [oid |-> objects + 1,
         uuid |-> uuid(clock, 1),
         name |-> environment.name \o <<" (copy)">>,
         duplicates |-> <<>>,
         routesRef |-> cloneDeepRoutes(environment, objects + 1).routesRef,
         routes |-> cloneDeepRoutes(environment, objects + 1).routes])

\* Object.assign({}, this.environments[environmentIndex], {...}): the copy
\* of the environment with some properties reset, a new object
copyOfEnvironment(environment, clock, objects) ==
    Assign(environment,
        [oid |-> objects + 1, instance |-> "null", running |-> FALSE,
         uuid |-> uuid(clock, 1),
         name |-> environment.name \o <<" (copy)">>,
         startedAt |-> "null", duplicates |-> <<>>, needRestart |-> FALSE,
         routesRef |-> cloneDeepRoutes(environment, objects + 1).routesRef,
         routes |-> cloneDeepRoutes(environment, objects + 1).routes])

duplicateEnvironment(environmentIndex) ==
    /\ calls < MaxCalls
    /\ environmentIndex \in Indices(environments)
    /\ Len(environments) < MaxEnvironments
    /\ LET environment == At(environments, environmentIndex)
           newEnvironment == copyOfEnvironment(environment, uuidClock, oidClock)
       IN
        /\ routesTotal' = routesTotal + Len(environment.routes)
        /\ environments' = Append(environments, newEnvironment)
        /\ next([environment |-> newEnvironment.oid, callback |-> Callback])
        /\ oidClock' = oidClock + 2 + Len(environment.routes)
    /\ uuidClock' = uuidClock + 1
    /\ calls' = calls + 1
    /\ UNCHANGED <<writes, stored, invoked, alerts, uncaught, servers>>

\* duplicateRoute(environment, routeIndex, callback)
duplicateRoute(e, routeIndex) ==
    /\ calls < MaxCalls
    /\ e \in Indices(environments)
    /\ routeIndex \in Indices(At(environments, e).routes)
    /\ Len(At(environments, e).routes) < MaxRoutes
    /\ LET environment == At(environments, e)
           copy == Assign(cloneDeepRoute(At(environment.routes, routeIndex), oidClock),
                        [uuid |-> uuid(uuidClock, 1), duplicates |-> <<>>])
       IN
        /\ environments' =
            setRoutes(environments, environment.routesRef, Append(environment.routes, copy))
        /\ routesTotal' = routesTotal + 1
        /\ next([environment |-> environment.oid, callback |-> Callback])
    /\ uuidClock' = uuidClock + 1
    /\ oidClock' = oidClock + 1
    /\ calls' = calls + 1
    /\ UNCHANGED <<writes, stored, invoked, alerts, uncaught, servers>>

----------------------------------------------------------------------------
(* Edits in place by the UI layer *)

\* the ports and the endpoints the user may type
Ports == {DefaultPort, DefaultPort + 1}

Endpoints == {"Answer", "Users"}

\* the user changed the port of this.environments[e] in its form; the UI
\* layer emits the event for the environment, with no callback
setEnvironmentPort(e, port) ==
    /\ calls < MaxCalls
    /\ e \in Indices(environments)
    /\ port # At(environments, e).port
    /\ environments' = ReplaceAt(environments, e, [At(environments, e) EXCEPT !.port = port])
    /\ next([environment |-> At(environments, e).oid, callback |-> NullCallback])
    /\ calls' = calls + 1
    /\ UNCHANGED <<routesTotal, uuidClock, oidClock, writes, stored, invoked, alerts,
                   uncaught, servers>>

\* the user changed the endpoint of a route of this.environments[e]
setRouteEndpoint(e, routeIndex, endpoint) ==
    /\ calls < MaxCalls
    /\ e \in Indices(environments)
    /\ routeIndex \in Indices(At(environments, e).routes)
    /\ endpoint # At(At(environments, e).routes, routeIndex).endpoint
    /\ environments' =
        setRoutes(environments, At(environments, e).routesRef,
            [At(environments, e).routes EXCEPT ![routeIndex + 1].endpoint = endpoint])
    /\ next([environment |-> At(environments, e).oid, callback |-> NullCallback])
    /\ calls' = calls + 1
    /\ UNCHANGED <<routesTotal, uuidClock, oidClock, writes, stored, invoked, alerts,
                   uncaught, servers>>

----------------------------------------------------------------------------
(* Server runtime *)

\* ServerService.start(environment), requested by the UI: the instance is up
\* and the environment is marked running
startServer(e) ==
    /\ calls < MaxCalls
    /\ e \in Indices(environments)
    /\ ~At(environments, e).running
    /\ environments' =
        ReplaceAt(environments, e,
            [At(environments, e) EXCEPT
                !.running = TRUE, !.instance = "server", !.startedAt = "date"])
    /\ servers' = servers \cup {[oid |-> At(environments, e).oid, stopRequested |-> FALSE]}
    /\ calls' = calls + 1
    /\ UNCHANGED <<routesTotal, uuidClock, oidClock, recomputeTimer, persistTimer,
                   writes, stored, invoked, alerts, uncaught>>

\* the kill requested by stop() has completed: the instance is gone and the
\* environment object is marked stopped
serverKilled(s) ==
    /\ s \in servers
    /\ s.stopRequested
    /\ servers' = servers \ {s}
    /\ environments' =
        LET i == IndexOfObject(environments, s.oid) IN
        IF i < 0 THEN environments
        ELSE ReplaceAt(environments, i,
                [At(environments, i) EXCEPT
                    !.running = FALSE, !.instance = "null", !.startedAt = "null"])
    /\ UNCHANGED <<routesTotal, uuidClock, oidClock, recomputeTimer, persistTimer,
                   writes, stored, invoked, alerts, uncaught, calls>>

----------------------------------------------------------------------------
(* Import *)

\* mergeImport without the environment-duplicate pass
mergeImportNoDuplicatePass(envs, data, uclock, oclock) ==
    envs \o adoptObjects(renewUUIDs(migrateData(data), uclock), oclock)

\* importEnvironmentsFile once the checksum is verified: this.environments
\* after the migrations, the UUID renewal, the push and the duplicate pass
mergeImport(envs, data, uclock, oclock) ==
    checkEnvironmentsDuplicates(
        envs \o adoptObjects(renewUUIDs(migrateData(data), uclock), oclock))

\* the import going on after a wrong checksum is reported
wrongChecksumNoReturn(importData) ==
    /\ alerts' = Append(Append(alerts, <<"error", "IMPORT_WRONG_CHECKSUM">>),
                        <<"success", "IMPORT_SUCCESS">>)
    /\ environments' = mergeImport(environments, importData.data, uuidClock, oidClock)
    /\ uuidClock' = uuidClock + uuidCallsOfRenew(importData.data)
    /\ oidClock' = oidClock + objectsOfData(importData.data)
    /\ UNCHANGED uncaught

\* the branch of importEnvironmentsFile taken when verifyImportChecksum fails:
\* the alert, and return
wrongChecksum(importData) ==
    /\ alerts' = Append(alerts, <<"error", "IMPORT_WRONG_CHECKSUM">>)
    /\ UNCHANGED <<environments, uuidClock, oidClock, uncaught>>

\* the callback of fs.readFile in importEnvironmentsFile, for the file the
\* user chose in the dialog
importEnvironmentsFile(file) ==
    /\ calls < MaxCalls
    /\ calls' = calls + 1
    /\ UNCHANGED <<routesTotal, recomputeTimer, persistTimer, writes, stored,
                   invoked, servers>>
    /\ IF ~file.readable
       THEN /\ alerts' = Append(alerts, <<"error", "IMPORT_ERROR">>)
            /\ UNCHANGED <<environments, uuidClock, oidClock, uncaught>>
       ELSE LET parsed == JSONParse(file.content)
                importData == parsed.value
            IN
            IF parsed.throws
            THEN /\ uncaught' = uncaught + 1
                 /\ UNCHANGED <<environments, uuidClock, oidClock, alerts>>
            ELSE IF ~verifyImportChecksum(importData)
            THEN wrongChecksum(importData)
            ELSE /\ Len(environments) + Len(importData.data) <= MaxEnvironments
                 /\ environments' =
                        mergeImport(environments, importData.data, uuidClock, oidClock)
                 /\ uuidClock' = uuidClock + uuidCallsOfRenew(importData.data)
                 /\ oidClock' = oidClock + objectsOfData(importData.data)
                 /\ alerts' = Append(alerts, <<"success", "IMPORT_SUCCESS">>)
                 /\ UNCHANGED uncaught

----------------------------------------------------------------------------

Next ==
    \/ addEnvironment
    \/ \E e \in Indices(environments) : addRoute(e)
    \/ \E e \in Indices(environments) :
        \E routeIndex \in Indices(At(environments, e).routes) : removeRoute(e, routeIndex)
    \/ \E environmentIndex \in Indices(environments) : removeEnvironment(environmentIndex)
    \/ \E environmentIndex \in Indices(environments) : duplicateEnvironment(environmentIndex)
    \/ \E e \in Indices(environments) :
        \E routeIndex \in Indices(At(environments, e).routes) : duplicateRoute(e, routeIndex)
    \/ \E e \in Indices(environments) : \E port \in Ports : setEnvironmentPort(e, port)
    \/ \E e \in Indices(environments) :
        \E routeIndex \in Indices(At(environments, e).routes) :
            \E endpoint \in Endpoints : setRouteEndpoint(e, routeIndex, endpoint)
    \/ \E file \in Files : importEnvironmentsFile(file)
    \/ \E e \in Indices(environments) : startServer(e)
    \/ \E s \in servers : serverKilled(s)
    \/ RecomputeSubscriber
    \/ PersistSubscriber
    \/ \E k \in 1 .. Len(writes) : StorageSetDone(k)

Spec == Init /\ [][Next]_vars

\* a timer that was started runs out, and the store answers a storage.set
FairSpec ==
    /\ Spec
    /\ WF_vars(RecomputeSubscriber)
    /\ WF_vars(PersistSubscriber)
    /\ WF_vars(\E k \in 1 .. Len(writes) : StorageSetDone(k))

----------------------------------------------------------------------------
(* Properties *)

Elements(s) == {s[k] : k \in 1 .. Len(s)}

\* indices of the other routes with the same (method, endpoint)
SameKeyRoutes(routes, i) ==
    {j \in Indices(routes) \ {i} :
        /\ At(routes, j).method = At(routes, i).method
        /\ At(routes, j).endpoint = At(routes, i).endpoint}

RouteDuplicatesExact(environment) ==
    \A i \in Indices(environment.routes) :
        Elements(At(environment.routes, i).duplicates) = SameKeyRoutes(environment.routes, i)

\* C1: reconciliation convergence.  Once the duplicate-recompute consumer has
\* fired for the last mutation event (its timer is no longer pending), every
\* route of every environment of the collection has `duplicates` equal to
\* exactly the indices of the other routes of its environment with the same
\* (method, endpoint), whichever environments the events of the burst carried.
ReconciliationConvergence ==
    ~recomputeTimer.armed =>
        \A e \in Indices(environments) : RouteDuplicatesExact(At(environments, e))

\* the sanitized copy of a collection: every field of every environment but
\* the transient ones, and none of the live objects
SanitizedCopy(envs) ==
    [k \in 1 .. Len(envs) |->
        [f \in {"uuid", "name", "port", "routes", "duplicates", "cors"} |->
            IF f = "routes"
            THEN [r \in 1 .. Len(envs[k].routes) |->
                    [g \in {"uuid", "method", "endpoint", "customHeaders", "duplicates"} |->
                        envs[k].routes[r][g]]]
            ELSE envs[k][f]]]

\* C2: persistence convergence.  When the persistence consumer fires, the
\* value it hands to the store is the sanitized copy of the whole live
\* collection as it is at that moment, and when the store acknowledges a
\* write the value stored under the key is the value of that write.
PersistenceConvergence ==
    [][ /\ PersistSubscriber =>
            /\ Len(writes') = Len(writes) + 1
            /\ writes'[Len(writes')].value = SanitizedCopy(environments)
        /\ \A k \in 1 .. Len(writes) :
            StorageSetDone(k) => stored' = writes[k].value
      ]_vars

\* a burst of two mutations has been persisted: the store holds the
\* sanitized copy of the live collection, one environment of which is running
PersistedBurst ==
    /\ calls >= 2
    /\ stored # EmptyStore
    /\ Len(environments) >= 2
    /\ \E e \in Indices(environments) : At(environments, e).running
    /\ writes = <<>>
    /\ stored = SanitizedCopy(environments)

\* C3: completion callback.  Once the duplicate-recompute consumer has
\* processed the last event of a burst, the callback of that event has been
\* invoked by it, and no callback is ever invoked by the persistence consumer.
CallbackByRecomputeOnly ==
    /\ (/\ ~recomputeTimer.armed
        /\ persistTimer.armed
        /\ persistTimer.params.callback # NullCallback)
            => <<persistTimer.params.callback, "recompute">> \in invoked
    /\ \A c \in invoked : c[2] = "recompute"

EnvironmentUuids(envs) == {envs[k].uuid : k \in 1 .. Len(envs)}

RouteUuids(envs) ==
    UNION {{envs[k].routes[r].uuid : r \in 1 .. Len(envs[k].routes)} : k \in 1 .. Len(envs)}

HeaderUuids(envs) ==
    UNION {UNION {{envs[k].routes[r].customHeaders[h].uuid :
                        h \in 1 .. Len(envs[k].routes[r].customHeaders)} :
                    r \in 1 .. Len(envs[k].routes)} : k \in 1 .. Len(envs)}

\* u was generated by uuid() during the step
NewlyGenerated(u) == uuidClock < u /\ u <= uuidClock'

\* the route `route` was created with fresh UUIDs by the step
FreshRoute(route) ==
    /\ NewlyGenerated(route.uuid)
    /\ route.uuid \notin RouteUuids(environments)
    /\ \A h \in 1 .. Len(route.customHeaders) :
        /\ NewlyGenerated(route.customHeaders[h].uuid)
        /\ route.customHeaders[h].uuid \notin HeaderUuids(environments)

\* C4: fresh UUIDs on add.  The environment appended by addEnvironment, its
\* route and that route's header, and the route and header appended by
\* addRoute, carry newly generated UUIDs that no entity of the same kind
\* already in the collection has.
FreshUuidsOnAdd ==
    [][ /\ addEnvironment =>
            LET new == environments'[Len(environments')] IN
            /\ NewlyGenerated(new.uuid)
            /\ new.uuid \notin EnvironmentUuids(environments)
            /\ \A r \in 1 .. Len(new.routes) : FreshRoute(new.routes[r])
        /\ \A e \in Indices(environments) :
            addRoute(e) =>
                LET routes == At(environments', e).routes IN
                FreshRoute(routes[Len(routes)])
      ]_vars

RECURSIVE RoutesCount(_)
RoutesCount(envs) ==
    IF envs = <<>> THEN 0 ELSE Len(Head(envs).routes) + RoutesCount(Tail(envs))

UuidsUnique(envs) ==
    /\ Cardinality(EnvironmentUuids(envs)) = Len(envs)
    /\ Cardinality(RouteUuids(envs)) = RoutesCount(envs)

\* an environment object that stays in the collection keeps its uuid, and
\* its routes keep theirs: the uuids of its routes are those it had, one
\* removed or one appended at most
UuidsKept ==
    \A i \in Indices(environments) :
        LET j == IndexOfObject(environments', At(environments, i).oid)
            before == [r \in 1 .. Len(At(environments, i).routes) |->
                            At(environments, i).routes[r].uuid]
        IN j >= 0 =>
            LET after == [r \in 1 .. Len(At(environments', j).routes) |->
                            At(environments', j).routes[r].uuid]
            IN
            /\ At(environments', j).uuid = At(environments, i).uuid
            /\ \/ after = before
               \/ /\ Len(after) = Len(before) + 1
                  /\ SubSeq(after, 1, Len(before)) = before
               \/ \E r \in Indices(before) : after = Splice(before, r)

\* C5: UUID uniqueness.  In every reachable state no two environments share
\* a uuid and no two routes anywhere in the collection share a uuid, and
\* the uuid of an entity that stays in the collection never changes.
UuidsUniqueAndImmutable == [][UuidsUnique(environments') /\ UuidsKept]_vars

\* the user chose `file`, it was read and parsed, and its checksum is wrong
ChecksumMismatch(file) ==
    /\ file.readable
    /\ ~JSONParse(file.content).throws
    /\ JSONParse(file.content).value.checksum # checksum(JSONParse(file.content).value.data)

\* C6: checksum mismatch on import.  When the checksum stored in the imported
\* document differs from the checksum of its data, the import shows the
\* wrong-checksum error alert and no other alert, and leaves the live
\* collection exactly as it was.
ChecksumMismatchAborts ==
    [][ \A file \in Files :
            (importEnvironmentsFile(file) /\ ChecksumMismatch(file)) =>
                /\ alerts' = Append(alerts, <<"error", "IMPORT_WRONG_CHECKSUM">>)
                /\ environments' = environments
      ]_vars

\* a tampered document was chosen for import while the collection held more
\* than the first-run environment
TamperedImportRejected ==
    /\ \E k \in 1 .. Len(alerts) : alerts[k] = <<"error", "IMPORT_WRONG_CHECKSUM">>
    /\ alerts[Len(alerts)] = <<"error", "IMPORT_WRONG_CHECKSUM">>
    /\ Len(environments) >= 2

\* C7: malformed import document.  When the file is read but does not parse,
\* the import error alert is shown, nothing is thrown out of the callback,
\* and the live collection is unchanged.
MalformedImportReported ==
    [][ \A file \in Files :
            (/\ importEnvironmentsFile(file)
             /\ file.readable
             /\ JSONParse(file.content).throws) =>
                /\ alerts' = Append(alerts, <<"error", "IMPORT_ERROR">>)
                /\ uncaught' = uncaught
                /\ environments' = environments
      ]_vars

AllUuids(envs) == EnvironmentUuids(envs) \cup RouteUuids(envs) \cup HeaderUuids(envs)

\* the user chose `file` and its import succeeds
ImportSucceeds(file) ==
    /\ importEnvironmentsFile(file)
    /\ file.readable
    /\ ~JSONParse(file.content).throws
    /\ ~ChecksumMismatch(file)

\* C8: import UUID renewal.  After a successful import every environment,
\* route and header that came from the file has a UUID that no entity of the
\* live collection had before the import and that is not the UUID it has in
\* the file.
ImportRenewsUuids ==
    [][ \A file \in Files :
            ImportSucceeds(file) =>
                LET data == JSONParse(file.content).value.data
                    n == Len(environments)
                    Renewed(new, old) ==
                        new \notin AllUuids(environments) /\ new # old
                IN
                /\ Len(environments') = n + Len(data)
                /\ \A k \in 1 .. Len(data) :
                    LET env == environments'[n + k] IN
                    /\ Renewed(env.uuid, data[k].uuid)
                    /\ Len(env.routes) = Len(data[k].routes)
                    /\ \A r \in 1 .. Len(env.routes) :
                        /\ Renewed(env.routes[r].uuid, data[k].routes[r].uuid)
                        /\ Len(env.routes[r].customHeaders)
                                = Len(data[k].routes[r].customHeaders)
                        /\ \A h \in 1 .. Len(env.routes[r].customHeaders) :
                            Renewed(env.routes[r].customHeaders[h].uuid,
                                    data[k].routes[r].customHeaders[h].uuid)
      ]_vars

\* the document this instance exported was imported back into it: two
\* environments named Example, with no uuid in common
OwnExportImported ==
    /\ Len(alerts) > 0
    /\ alerts[Len(alerts)] = <<"success", "IMPORT_SUCCESS">>
    /\ \E i, j \in Indices(environments) :
        /\ i < j
        /\ At(environments, i).name = <<"Example">>
        /\ At(environments, j).name = <<"Example">>
        /\ AllUuids(<<At(environments, i)>>) \cap AllUuids(<<At(environments, j)>>) = {}

\* an environment's fields other than `duplicates`
ExceptDuplicates(environment) ==
    [f \in DOMAIN environment \ {"duplicates"} |-> environment[f]]

\* what an environment holds apart from identities and derived fields
RouteContent(route) ==
    [method |-> route.method, endpoint |-> route.endpoint,
     headers |-> [h \in 1 .. Len(route.customHeaders) |->
                    <<route.customHeaders[h].key, route.customHeaders[h].value>>]]

EnvironmentContent(environment) ==
    [name |-> environment.name, port |-> environment.port,
     routes |-> [r \in 1 .. Len(environment.routes) |-> RouteContent(environment.routes[r])]]

SamePortEnvironments(envs, i) ==
    {j \in Indices(envs) \ {i} : At(envs, j).port = At(envs, i).port}

EnvironmentDuplicatesExact(envs) ==
    \A i \in Indices(envs) : Elements(At(envs, i).duplicates) = SamePortEnvironments(envs, i)

\* C9: import merges by appending.  After a successful import the collection
\* is the previous one, each environment at its index and unchanged but for
\* `duplicates`, followed by the imported environments in file order, and
\* every environment's `duplicates` is exactly the set of indices of the
\* other environments of the merged collection with the same port.
ImportAppends ==
    [][ \A file \in Files :
            ImportSucceeds(file) =>
                LET data == JSONParse(file.content).value.data
                    n == Len(environments)
                IN
                /\ Len(environments') = n + Len(data)
                /\ \A k \in 1 .. n :
                    ExceptDuplicates(environments'[k]) = ExceptDuplicates(environments[k])
                /\ \A k \in 1 .. Len(data) :
                    EnvironmentContent(environments'[n + k]) = EnvironmentContent(data[k])
                /\ EnvironmentDuplicatesExact(environments')
      ]_vars

\* the two environments of the foreign document were appended after the
\* first-run environment, whose port the first of them shares
ForeignImportMerged ==
    /\ Len(environments) = 3
    /\ At(environments, 0).name = <<"Example">>
    /\ At(environments, 1).name = <<"Users">>
    /\ At(environments, 2).name = <<"Orders">>
    /\ At(environments, 0).duplicates = <<1>>
    /\ At(environments, 1).duplicates = <<0>>
    /\ At(environments, 2).duplicates = <<>>

\* C10: stop before removal.  An environment is never deleted from the
\* collection while its server is still up: the stop requested by
\* removeEnvironment has taken effect before the environment is removed.
StoppedBeforeRemoval ==
    \A s \in servers : IndexOfObject(environments, s.oid) >= 0

\* the routes but for `duplicates`
RoutesExceptDuplicates(routes) ==
    [r \in 1 .. Len(routes) |->
        [f \in DOMAIN routes[r] \ {"duplicates"} |-> routes[r][f]]]

\* the event emitted by the step carries `params`: both consumers wait for
\* their whole window with it
Emitted(params) ==
    /\ recomputeTimer' = Armed(RecomputeDebounce, params)
    /\ persistTimer' = Armed(PersistDebounce, params)

\* C11: removeRoute recomputes synchronously.  At the moment removeRoute
\* emits its event, the route at the given index is out of the environment,
\* the routes left are the others in their order, and the `duplicates` of
\* each of them is exactly the set of the renumbered indices of the other
\* routes left with the same (method, endpoint).
RemoveRouteRecomputes ==
    [][ \A e \in Indices(environments) :
            \A routeIndex \in Indices(At(environments, e).routes) :
                removeRoute(e, routeIndex) =>
                    LET before == At(environments, e).routes
                        after == At(environments', e).routes
                    IN
                    /\ Emitted([environment |-> At(environments, e).oid,
                                callback |-> calls'])
                    /\ RoutesExceptDuplicates(after)
                            = RoutesExceptDuplicates(Splice(before, routeIndex))
                    /\ RouteDuplicatesExact(At(environments', e))
      ]_vars

\* one of three routes that were duplicates of each other has just been
\* removed: the two left are duplicates of each other only, and neither
\* consumer has processed the event yet
ThirdDuplicateRemoved ==
    \E e \in Indices(environments) :
        LET routes == At(environments, e).routes IN
        /\ At(environments, e).name = <<"Users">>
        /\ Len(routes) = 2
        /\ At(routes, 0).duplicates = <<1>>
        /\ At(routes, 1).duplicates = <<0>>
        /\ recomputeTimer = Armed(RecomputeDebounce,
                [environment |-> At(environments, e).oid, callback |-> calls])
        /\ persistTimer.remaining = PersistDebounce

\* the route-duplicate pass has just run on this.environments[e]
RoutePassRan(e) ==
    \/ /\ RecomputeSubscriber
       /\ recomputeTimer.params.environment # NullEnvironment
       /\ IndexOfObject(environments, recomputeTimer.params.environment) = e
    \/ \E routeIndex \in Indices(At(environments, e).routes) : removeRoute(e, routeIndex)

\* C12: route duplicate symmetry.  Right after the route-duplicate pass has
\* run on an environment, for any two indices i and j of its routes, j is in
\* the `duplicates` of route i exactly when i and j differ and the two routes
\* have the same method and the same endpoint, compared as they are written;
\* so j is in the `duplicates` of i exactly when i is in those of j, and no
\* route lists its own index.
RouteDuplicatesSymmetric ==
    [][ \A e \in Indices(environments) :
            RoutePassRan(e) =>
                LET routes == At(environments', e).routes
                    Listed(i, j) == j \in Elements(At(routes, i).duplicates)
                IN
                \A i, j \in Indices(routes) :
                    /\ Listed(i, j) <=>
                            /\ i # j
                            /\ At(routes, i).method = At(routes, j).method
                            /\ At(routes, i).endpoint = At(routes, j).endpoint
                    /\ Listed(i, j) <=> Listed(j, i)
                    /\ ~Listed(i, i)
      ]_vars

\* the pass has run on an environment with two routes that are duplicates
\* of each other and a third of the same method whose endpoint differs from
\* theirs by its case only, and which is a duplicate of neither
CaseKeepsRoutesApart ==
    /\ ~recomputeTimer.armed
    /\ \E e \in Indices(environments) :
        LET routes == At(environments, e).routes IN
        \E i, j, k \in Indices(routes) :
            /\ At(routes, i).duplicates = <<j>>
            /\ At(routes, j).duplicates = <<i>>
            /\ At(routes, k).duplicates = <<>>
            /\ At(routes, k).method = At(routes, i).method
            /\ At(routes, k).endpoint # At(routes, i).endpoint
            /\ LowerCase(At(routes, k).endpoint) = LowerCase(At(routes, i).endpoint)

\* the environment-duplicate pass has just run: in the recompute consumer
\* for an event with an environment, in removeEnvironment, or at the end of
\* a successful import
EnvironmentPassRan ==
    \/ RecomputeSubscriber /\ recomputeTimer.params.environment # NullEnvironment
    \/ \E environmentIndex \in Indices(environments) : removeEnvironment(environmentIndex)
    \/ \E file \in Files : ImportSucceeds(file)

\* C13: environment duplicates follow the port.  Right after the
\* environment-duplicate pass has run, the `duplicates` of every environment
\* is exactly the set of the indices of the other environments with the same
\* port, and running the pass again on the collection as it is changes
\* nothing.
EnvironmentDuplicatesFollowPort ==
    [][ EnvironmentPassRan =>
            /\ EnvironmentDuplicatesExact(environments')
            /\ checkEnvironmentsDuplicates(environments') = environments'
      ]_vars

\* two environments were persisted with the same port, each listing the
\* other; the port of one was changed since and the pass has run again:
\* neither lists the other any more
PortChangeClearsDuplicates ==
    /\ ~recomputeTimer.armed
    /\ Len(environments) = 2
    /\ Len(stored) = 2
    /\ stored[1].port = stored[2].port
    /\ stored[1].duplicates = <<1>>
    /\ stored[2].duplicates = <<0>>
    /\ stored[1].uuid = At(environments, 0).uuid
    /\ stored[2].uuid = At(environments, 1).uuid
    /\ At(environments, 0).port # At(environments, 1).port
    /\ At(environments, 0).duplicates = <<>>
    /\ At(environments, 1).duplicates = <<>>

\* no two environments of the collection have the same `routes` array
RoutesArraysDistinct(envs) ==
    \A i, j \in Indices(envs) : i # j => At(envs, i).routesRef # At(envs, j).routesRef

\* no two routes of the collection have the same `customHeaders` array
HeadersArraysDistinct(envs) ==
    \A i, j \in Indices(envs) :
        \A r \in Indices(At(envs, i).routes) :
            \A q \in Indices(At(envs, j).routes) :
                (i # j \/ r # q) =>
                    At(At(envs, i).routes, r).headersRef # At(At(envs, j).routes, q).headersRef

\* the step changed the route list of this.environments[e], or a route of it
RoutesEdited(e) ==
    \/ addRoute(e)
    \/ \E routeIndex \in Indices(At(environments, e).routes) :
        \/ removeRoute(e, routeIndex)
        \/ duplicateRoute(e, routeIndex)
        \/ \E endpoint \in Endpoints : setRouteEndpoint(e, routeIndex, endpoint)

\* C14: deep-copy isolation.  In every reachable state no two environments
\* have the same `routes` array and no two routes have the same
\* `customHeaders` array; so an operation that changes the routes of one
\* environment, a copy or an original, leaves every other environment as it
\* was.
DeepCopyIsolation ==
    [][ /\ RoutesArraysDistinct(environments')
        /\ HeadersArraysDistinct(environments')
        /\ \A e \in Indices(environments) :
            RoutesEdited(e) =>
                /\ Len(environments') = Len(environments)
                /\ \A k \in Indices(environments) \ {e} :
                    At(environments', k) = At(environments, k)
      ]_vars

\* an environment and the copy duplicateEnvironment made of it, after a
\* route was added to one of the two: the other still has the routes it had
CopyEditedAlone ==
    \E i, j \in Indices(environments) :
        LET original == At(environments, i)
            copy == At(environments, j)
        IN
        /\ copy.name = original.name \o <<" (copy)">>
        /\ Len(original.routes) >= 1
        /\ Len(copy.routes) >= 1
        /\ copy.routes[1].uuid = original.routes[1].uuid
        /\ Len(copy.routes) # Len(original.routes)

\* fields that live in the running process only
TransientFields == {"running", "instance", "startedAt", "needRestart"}

NoTransientField(value) ==
    \A n \in 1 .. Len(value) : DOMAIN value[n] \cap TransientFields = {}

\* C15: sanitized snapshot write.  The value handed to the store has none
\* of running, instance, startedAt, needRestart in any environment; it is
\* the collection as it was when the write was started, which no step taken
\* before the acknowledgment changes, and it is what the store holds after
\* the acknowledgment; starting the write and acknowledging it leave the
\* live collection as it is.
SanitizedSnapshotWrite ==
    [][ /\ \A k \in 1 .. Len(writes') : NoTransientField(writes'[k].value)
        /\ NoTransientField(stored')
        /\ PersistSubscriber =>
            /\ environments' = environments
            /\ Len(writes') = Len(writes) + 1
            /\ SubSeq(writes', 1, Len(writes)) = writes
            /\ writes'[Len(writes')].value = SanitizedCopy(environments)
        /\ \A k \in 1 .. Len(writes) :
            StorageSetDone(k) =>
                /\ environments' = environments
                /\ stored' = writes[k].value
                /\ writes' = Splice(writes, k - 1)
        /\ (~PersistSubscriber /\ ~(\E k \in 1 .. Len(writes) : StorageSetDone(k)))
            => writes' = writes
      ]_vars

\* a write is under way while the live collection, one environment of which
\* was changed since the write was started, is no longer what is being
\* written
WrittenWhileEdited ==
    /\ Len(writes) = 1
    /\ persistTimer.armed
    /\ Len(writes[1].value) = Len(environments)
    /\ writes[1].value # SanitizedCopy(environments)
    /\ \A e \in Indices(environments) : TransientFields \subseteq DOMAIN At(environments, e)

\* the step is an operation that emits a mutation event
MutationStep ==
    \/ addEnvironment
    \/ \E e \in Indices(environments) : RoutesEdited(e)
    \/ \E e \in Indices(environments) :
        \/ removeEnvironment(e)
        \/ duplicateEnvironment(e)
        \/ \E port \in Ports : setEnvironmentPort(e, port)

\* the callback c will not be invoked by the consumer: the consumer does not
\* hold it pending, has not invoked it, and no write under way carries it
Dropped(c, consumer) ==
    /\ <<c, consumer>> \notin invoked
    /\ IF consumer = "recompute"
       THEN ~(recomputeTimer.armed /\ recomputeTimer.params.callback = c)
       ELSE /\ ~(persistTimer.armed /\ persistTimer.params.callback = c)
            /\ \A k \in 1 .. Len(writes) : writes[k].callback # c

\* what a step may do to the consumers and to the writes under way
CoalescingStep ==
    [][ /\ MutationStep =>
            /\ \E callback \in {calls', NullCallback} :
                \E environment \in {environments'[k].oid : k \in 1 .. Len(environments')}
                                        \cup {NullEnvironment} :
                    Emitted([environment |-> environment, callback |-> callback])
            /\ \A c \in 1 .. calls :
                /\ (recomputeTimer.armed /\ recomputeTimer.params.callback = c)
                    => Dropped(c, "recompute")'
                /\ (persistTimer.armed /\ persistTimer.params.callback = c)
                    => Dropped(c, "persist")'
        /\ \A c \in 1 .. calls :
            \A consumer \in {"recompute", "persist"} :
                Dropped(c, consumer) => Dropped(c, consumer)'
        /\ RecomputeSubscriber =>
            /\ ~recomputeTimer'.armed
            /\ invoked' \ invoked \subseteq {<<recomputeTimer.params.callback, "recompute">>}
        /\ PersistSubscriber =>
            /\ ~persistTimer'.armed
            /\ Len(writes') = Len(writes) + 1
            /\ writes'[Len(writes')].callback = persistTimer.params.callback
        /\ ~PersistSubscriber => Len(writes') <= Len(writes)
        /\ (recomputeTimer.armed /\ ~recomputeTimer'.armed) => RecomputeSubscriber
        /\ (persistTimer.armed /\ ~persistTimer'.armed) => PersistSubscriber
      ]_vars

\* C16: trailing-edge coalescing.  An event emitted while a consumer still
\* waits with the previous one replaces it; a consumer stops waiting only
\* by firing, and does so after the last event of the burst (it is idle
\* again and again), once, with the parameters of that event only;
\* the persistence consumer starts exactly one write when it fires and no
\* write is started otherwise; and the callback of an event that was
\* replaced is never invoked by that consumer.
TrailingEdgeCoalescing ==
    /\ CoalescingStep
    /\ []<>(~recomputeTimer.armed)
    /\ []<>(~persistTimer.armed)

\* a burst of two operations, each with its callback, has been processed
\* and persisted: both consumers invoked the callback of the second, and
\* neither the callback of the first
BurstCoalesced ==
    /\ calls = 2
    /\ Len(environments) = 3
    /\ \A e \in {1, 2} :
        At(environments, e).name \in {<<"New environment">>, <<"Example", " (copy)">>}
    /\ invoked = {<<2, "recompute">>, <<2, "persist">>}
    /\ ~recomputeTimer.armed
    /\ ~persistTimer.armed
    /\ writes = <<>>
    /\ stored = SanitizedCopy(environments)

\* C17: recompute before persist.  When the persistence consumer fires for
\* an event, the recompute consumer has processed that event already; so,
\* when the event carries an environment, the snapshot handed to the store
\* has exact route `duplicates` in that environment and exact environment
\* `duplicates` throughout.  The callback of the event is invoked by the
\* persistence consumer only when the store acknowledges that write.
RecomputeBeforePersist ==
    [][ /\ PersistSubscriber =>
            LET snapshot == writes'[Len(writes')].value
                carried == persistTimer.params.environment
                e == IndexOfObject(environments, carried)
            IN
            /\ ~recomputeTimer.armed
            /\ carried # NullEnvironment =>
                /\ e >= 0
                /\ Len(snapshot) = Len(environments)
                /\ RouteDuplicatesExact(At(snapshot, e))
                /\ EnvironmentDuplicatesExact(snapshot)
        /\ \A c \in 1 .. calls :
            (<<c, "persist">> \in invoked' /\ <<c, "persist">> \notin invoked) =>
                \E k \in 1 .. Len(writes) :
                    /\ StorageSetDone(k)
                    /\ writes[k].callback = c
                    /\ stored' = writes[k].value
      ]_vars

\* the first-run environment with a copy of its first route was persisted
\* after a duplicateRoute: the store holds the two routes as duplicates of
\* each other, and the callback of the call was invoked on the acknowledgment
DuplicatesPersisted ==
    /\ Len(stored) >= 1
    /\ stored[1].name = <<"Example">>
    /\ Len(stored[1].routes) = 3
    /\ stored[1].routes[1].duplicates = <<2>>
    /\ stored[1].routes[3].duplicates = <<0>>
    /\ \E c \in 1 .. calls : {<<c, "recompute">>, <<c, "persist">>} \subseteq invoked

\* the step appended one environment and left the others where they were
EnvironmentAppended ==
    /\ Len(environments') = Len(environments) + 1
    /\ SubSeq(environments', 1, Len(environments)) = environments

\* the step appended one route to this.environments[e] and left everything
\* else of the collection as it was
RouteAppended(e) ==
    LET before == At(environments, e)
        after == At(environments', e)
    IN
    /\ Len(environments') = Len(environments)
    /\ \A k \in Indices(environments) \ {e} : At(environments', k) = At(environments, k)
    /\ [after EXCEPT !.routes = before.routes] = before
    /\ Len(after.routes) = Len(before.routes) + 1
    /\ SubSeq(after.routes, 1, Len(before.routes)) = before.routes

\* the step emitted one event, for `environment` and with the callback of
\* the call
EmittedFor(environment) == Emitted([environment |-> environment.oid, callback |-> calls'])

\* C18: append-only adds.  addEnvironment and duplicateEnvironment append
\* one environment at the end of the collection, at the index they return
\* (the previous length); addRoute and duplicateRoute append one route at
\* the end of the environment's routes; each emits one event carrying the
\* environment concerned and leaves what was there before unchanged at its
\* index.  The copy made by duplicateEnvironment has the name of the
\* original followed by " (copy)", is not running, has no instance and no
\* start time, needs no restart and has empty `duplicates`; the copy made by
\* duplicateRoute has empty `duplicates`.
AppendOnlyAdds ==
    [][ /\ addEnvironment =>
            /\ EnvironmentAppended
            /\ EmittedFor(At(environments', Len(environments)))
        /\ \A environmentIndex \in Indices(environments) :
            duplicateEnvironment(environmentIndex) =>
                LET original == At(environments, environmentIndex)
                    copy == At(environments', Len(environments))
                IN
                /\ EnvironmentAppended
                /\ EmittedFor(copy)
                /\ copy.name = original.name \o <<" (copy)">>
                /\ copy.running = FALSE
                /\ copy.instance = "null"
                /\ copy.startedAt = "null"
                /\ copy.needRestart = FALSE
                /\ copy.duplicates = <<>>
                /\ copy.port = original.port
                /\ EnvironmentContent(copy).routes = EnvironmentContent(original).routes
        /\ \A e \in Indices(environments) :
            /\ addRoute(e) =>
                /\ RouteAppended(e)
                /\ EmittedFor(At(environments, e))
            /\ \A routeIndex \in Indices(At(environments, e).routes) :
                duplicateRoute(e, routeIndex) =>
                    LET routes == At(environments', e).routes IN
                    /\ RouteAppended(e)
                    /\ EmittedFor(At(environments, e))
                    /\ routes[Len(routes)].duplicates = <<>>
                    /\ RouteContent(routes[Len(routes)])
                            = RouteContent(At(At(environments, e).routes, routeIndex))
      ]_vars

\* a running environment was duplicated: the copy, last of the collection,
\* is stopped, and the original is running as before
RunningEnvironmentCopied ==
    /\ Len(environments) >= 2
    /\ LET copy == At(environments, Len(environments) - 1) IN
        /\ ~copy.running
        /\ copy.instance = "null"
        /\ \E i \in Indices(environments) :
            /\ At(environments, i).running
            /\ At(environments, i).instance = "server"
            /\ copy.name = At(environments, i).name \o <<" (copy)">>
    /\ recomputeTimer.armed
    /\ recomputeTimer.params.environment = At(environments, Len(environments) - 1).oid

\* C19: route counter.  In every reachable state routesTotal is the number
\* of routes of all the environments of the collection.
RoutesTotalExact == routesTotal = RoutesCount(environments)

\* nothing is pending: no consumer waits and no write is under way, so the
\* store changes no more until the next event
Quiescent ==
    /\ ~recomputeTimer.armed
    /\ ~persistTimer.armed
    /\ writes = <<>>

\* the environment came from an imported file: it has the name of an
\* environment of one of the files and is not the first-run object
Imported(environment) ==
    /\ environment.oid # buildDefaultEnvironment.oid
    /\ \E file \in Files :
        \E k \in 1 .. Len(file.content.document.data) :
            environment.name = file.content.document.data[k].name

\* C20: a successful import is eventually persisted.  Once nothing is
\* pending any more, every imported environment of the live collection is
\* in the collection the store holds.
ImportPersisted ==
    Quiescent =>
        \A e \in Indices(environments) :
            Imported(At(environments, e)) =>
                At(environments, e).uuid \in EnvironmentUuids(stored)

====
